---- MODULE Spec2Model ----
(***************************************************************************)
(* Model of the time-tracker backend (backend/src/main.rs).                *)
(*                                                                         *)
(* The server is an axum Router with four routes.  No handler reads or     *)
(* writes anything that outlives the request: the only thing a handler     *)
(* reads besides its own request is the wall clock (chrono::Utc::now) and, *)
(* for /health, the system metrics (sys_info).  The model keeps the wall   *)
(* clock and the trace of request/response exchanges the server has had    *)
(* with its clients, which is what the claims are about.                   *)
(***************************************************************************)
EXTENDS Integers, Sequences, FiniteSets

VARIABLES
    clock,      \* wall clock in milliseconds, as chrono::Utc::now() reads it
    served      \* the exchanges so far, oldest first: request, time, response

vars == <<clock, served>>

\* Bounds of the model: the wall clock runs from 1 to MaxClock, and the
\* server is sent MaxHistory requests.
MaxClock == 2
MaxHistory == 3

Clients == {"A", "B"}

\* The sender of a request to a route that no client state hangs on.
Anyone == "anyone"

\* The order of client ids (the lexicographic order of their names), which
\* the specified merge policy breaks ties with.
ClientRank(c) == IF c = "A" THEN 1 ELSE 2

(***************************************************************************)
(* serde_json::Value, as far as the clients use it: null or an array of    *)
(* objects.                                                                *)
(***************************************************************************)
Null == [tag |-> "null", items |-> <<>>]

Arr(s) == [tag |-> "array", items |-> s]

\* One object of a submitted array: a changed record.
Change(kind, id, base, op, fields, ts) ==
    [kind |-> kind, id |-> id, base_revision |-> base, operation |-> op,
     fields |-> fields, client_timestamp |-> ts]

CreateT1 == Change("TimeEntry", "t1", 0, "create", "v", 50)
UpdateT1a == Change("TimeEntry", "t1", 1, "update", "a", 100)
UpdateT1b == Change("TimeEntry", "t1", 1, "update", "b", 200)
StaleT1 == Change("TimeEntry", "t1", 5, "update", "c", 100)
CreateT2 == Change("TimeEntry", "t2", 0, "create", "w", 50)
CreateP1 == Change("Project", "p1", 0, "create", "proj", 50)
CreateC1 == Change("Category", "c1", 0, "create", "cat", 50)

NoChanges == <<Arr(<<>>), Arr(<<>>), Arr(<<>>)>>
FirstCreate == <<Arr(<<CreateT1>>), Arr(<<CreateP1>>), Arr(<<CreateC1>>)>>
SecondCreate == <<Arr(<<CreateT2>>), Arr(<<>>), Arr(<<>>)>>

\* The bodies the clients post: (time_entries, projects, categories).
Bodies ==
    { NoChanges,
      FirstCreate,
      <<Arr(<<UpdateT1a>>), Arr(<<>>), Null>>,
      <<Arr(<<UpdateT1b>>), Null, Arr(<<>>)>>,
      <<Arr(<<CreateT2, StaleT1>>), Arr(<<>>), Arr(<<>>)>> }

\* struct SyncRequest
SyncRequest(w, body) ==
    [last_synced_at |-> w, time_entries |-> body[1], projects |-> body[2],
     categories |-> body[3]]

\* The request of a route that takes no body.
NoPayload == SyncRequest(0, <<Null, Null, Null>>)

\* A Result of sys_info: Ok(value) or Err.
Ok(v) == [ok |-> TRUE, val |-> v]
Err == [ok |-> FALSE, val |-> 0]

\* What the three sys_info calls can return.
Metrics ==
    { <<Ok(8), Ok(3), Ok(7)>>, <<Err, Ok(3), Ok(7)>>,
      <<Ok(8), Err, Ok(7)>>, <<Ok(8), Ok(3), Err>> }

AllOk == <<Ok(8), Ok(3), Ok(7)>>

\* The cursor a client holds: the one its latest sync call returned, or 0
\* when it has not synced yet.
RECURSIVE Held(_, _)
Held(c, n) ==
    IF n = 0 THEN 0
    ELSE IF /\ served[n].req.client = c
            /\ served[n].req.route \in {"GET /sync", "POST /sync"}
         THEN served[n].resp.last_synced_at
         ELSE Held(c, n - 1)

\* The requests client c posts: any body with the cursor it holds, and a
\* request with a negative cursor.
Posts(c) ==
    { SyncRequest(Held(c, Len(served)), b) : b \in Bodies } \cup
    { SyncRequest(-1, SecondCreate) }

(***************************************************************************)
(* The handlers.                                                           *)
(***************************************************************************)
\* axum turns a returned Json(body) into a 200 response.
Json(body) == [http |-> 200, panicked |-> FALSE, resp |-> body]

\* A handler that panics produces no response.
Panic == [http |-> 0, panicked |-> TRUE, resp |-> [status |-> "panic"]]

\* .route("/", get(|| async { "Time Tracker API" }))
root == [http |-> 200, panicked |-> FALSE, resp |-> [text |-> "Time Tracker API"]]

\* The latest POST /sync exchange, 0 when there is none.
RECURSIVE LastPost(_)
LastPost(n) ==
    IF n = 0 THEN 0
    ELSE IF served[n].req.route = "POST /sync" THEN n
    ELSE LastPost(n - 1)

\* get_sync as it would be if the server kept the last posted data and
\* served it.
get_sync_last_posted(current_time) ==
    LET n == LastPost(Len(served)) IN
    Json([last_synced_at |-> current_time,
          time_entries |-> IF n = 0 THEN Null ELSE served[n].req.payload.time_entries,
          projects |-> IF n = 0 THEN Null ELSE served[n].req.payload.projects,
          categories |-> IF n = 0 THEN Null ELSE served[n].req.payload.categories])

\* async fn get_sync() -> Json<SyncResponse>
get_sync(current_time) ==
    Json([last_synced_at |-> current_time,
          time_entries |-> Null,
          projects |-> Null,
          categories |-> Null])

\* post_sync as it would be if it copied the request's cursor.
post_sync_keeps_cursor(payload, current_time) ==
    Json([last_synced_at |-> payload.last_synced_at,
          time_entries |-> payload.time_entries,
          projects |-> payload.projects,
          categories |-> payload.categories])

\* post_sync as it would be if it answered an empty submission with the
\* data posted last.
post_sync_replays(payload, current_time) ==
    LET n == LastPost(Len(served))
        replay == n > 0 /\ payload.time_entries.items = <<>>
    IN
    Json([last_synced_at |-> current_time,
          time_entries |-> IF replay THEN served[n].req.payload.time_entries
                           ELSE payload.time_entries,
          projects |-> payload.projects,
          categories |-> payload.categories])

\* async fn post_sync(Json(payload)) -> Json<SyncResponse>
post_sync(payload, current_time) ==
    Json([last_synced_at |-> current_time,
          time_entries |-> payload.time_entries,
          projects |-> payload.projects,
          categories |-> payload.categories])

\* async fn health() -> Json<HealthResponse>: each reading is unwrapped in
\* turn, and unwrapping an Err panics.
health(current_time, m) ==
    IF ~m[1].ok THEN Panic
    ELSE IF ~m[2].ok THEN Panic
    ELSE IF ~m[3].ok THEN Panic
    ELSE Json([status |-> "OK",
               last_synced_at |-> current_time,
               memory_usage |-> m[1].val,
               cpu_usage |-> m[2].val,
               uptime |-> m[3].val])

(***************************************************************************)
(* The state machine.                                                      *)
(***************************************************************************)
Request(route, c, payload, m) ==
    [route |-> route, client |-> c, payload |-> payload, metrics |-> m]

\* One exchange: the request, the time it was handled at, and the outcome.
Exchange(req, out) ==
    [req |-> req, at |-> clock, http |-> out.http, panicked |-> out.panicked,
     resp |-> out.resp]

Init ==
    /\ clock = 1
    /\ served = <<>>

\* The wall clock advances between requests.
Tick ==
    /\ clock < MaxClock
    /\ clock' = clock + 1
    /\ UNCHANGED served

Root ==
    /\ Len(served) < MaxHistory
    /\ served' = Append(served, Exchange(Request("GET /", Anyone, NoPayload, AllOk), root))
    /\ UNCHANGED clock

GetSync ==
    /\ Len(served) < MaxHistory
    /\ \E c \in Clients :
         served' = Append(served,
                          Exchange(Request("GET /sync", c, NoPayload, AllOk),
                                   get_sync(clock)))
    /\ UNCHANGED clock

PostSync ==
    /\ Len(served) < MaxHistory
    /\ \E c \in Clients : \E payload \in Posts(c) :
         served' = Append(served,
                          Exchange(Request("POST /sync", c, payload, AllOk),
                                   post_sync(payload, clock)))
    /\ UNCHANGED clock

Health ==
    /\ Len(served) < MaxHistory
    /\ \E m \in Metrics :
         served' = Append(served,
                          Exchange(Request("GET /health", Anyone, NoPayload, m),
                                   health(clock, m)))
    /\ UNCHANGED clock

Next == Tick \/ Root \/ GetSync \/ PostSync \/ Health

Spec == Init /\ [][Next]_vars

(***************************************************************************)
(* Reading the trace.                                                      *)
(***************************************************************************)
IsPost(e) == e.req.route = "POST /sync"

IsGetSync(e) == e.req.route = "GET /sync"

IsSync(e) == IsPost(e) \/ IsGetSync(e)

\* The data fields of a SyncRequest or SyncResponse.
Data(r) == <<r.time_entries, r.projects, r.categories>>

\* The objects of a JSON value (none for null).
Items(v) == { v.items[k] : k \in 1..Len(v.items) }

\* The changes a posted payload submits.
Submitted(payload) ==
    Items(payload.time_entries) \cup Items(payload.projects)
        \cup Items(payload.categories)

\* The notions below are the specification's (revision, accepted mutation,
\* last-writer-wins); the handlers have no counterpart of them.

\* The revision an object of a response carries, 0 when it carries none.
Revision(item) == IF "revision" \in DOMAIN item THEN item.revision ELSE 0

\* The number of changes (to record id) submitted in the first n exchanges by
\* calls the server answered with success.
RECURSIVE AcceptedFor(_, _)
AcceptedFor(id, n) ==
    IF n = 0 THEN 0
    ELSE AcceptedFor(id, n - 1) +
         (IF IsPost(served[n]) /\ served[n].http = 200
          THEN Cardinality({ ch \in Submitted(served[n].req.payload) : ch.id = id })
          ELSE 0)

RecordIds == {"t1", "t2", "p1", "c1"}

RECURSIVE SumOver(_, _)
SumOver(ids, n) ==
    IF ids = {} THEN 0
    ELSE LET id == CHOOSE x \in ids : TRUE
         IN AcceptedFor(id, n) + SumOver(ids \ {id}, n)

\* The number of changes accepted in the first n exchanges.
Accepted(n) == SumOver(RecordIds, n)

\* Of two changes to one record, the one last-writer-wins selects: the later
\* client_timestamp, and on a tie the larger client id.
Winner(c1, ch1, c2, ch2) ==
    IF ch1.client_timestamp > ch2.client_timestamp THEN ch1
    ELSE IF ch2.client_timestamp > ch1.client_timestamp THEN ch2
    ELSE IF ClientRank(c1) > ClientRank(c2) THEN ch1
    ELSE ch2

(***************************************************************************)
(* The claims.                                                             *)
(***************************************************************************)

\* C1: every POST /sync is answered with the time_entries, projects and
\* categories of that request, and with last_synced_at equal to the server's
\* clock when it handled the request, whatever cursor the request carried.
C1_PostEchoesWithServerTime ==
    \A i \in 1..Len(served) :
        IsPost(served[i]) =>
            /\ served[i].http = 200
            /\ served[i].resp.time_entries = served[i].req.payload.time_entries
            /\ served[i].resp.projects = served[i].req.payload.projects
            /\ served[i].resp.categories = served[i].req.payload.categories
            /\ served[i].resp.last_synced_at = served[i].at

\* A POST /sync carrying changes and a cursor other than the server's time has
\* been answered.
C1_Witness ==
    \E i \in 1..Len(served) :
        /\ IsPost(served[i])
        /\ served[i].req.payload.time_entries.items # <<>>
        /\ served[i].req.payload.projects.items # <<>>
        /\ served[i].req.payload.last_synced_at # served[i].at
        /\ served[i].resp.last_synced_at = served[i].at

\* C2: once client A, first on an empty store, has created t1 with cursor 0 and
\* has been answered with new watermark 1 and t1, every later sync call of
\* another client with cursor 0 is answered with a delta that contains t1.
C2_OtherClientReceivesCreate ==
    \A i \in 1..Len(served) : \A j \in 1..Len(served) :
        ( /\ i < j
          /\ IsPost(served[i])
          /\ Accepted(i - 1) = 0
          /\ served[i].req.payload.last_synced_at = 0
          /\ CreateT1 \in Items(served[i].req.payload.time_entries)
          /\ served[i].http = 200
          /\ served[i].resp.last_synced_at = 1
          /\ "t1" \in { it.id : it \in Items(served[i].resp.time_entries) }
          /\ IsPost(served[j])
          /\ served[j].req.client # served[i].req.client
          /\ served[j].req.payload.last_synced_at = 0 )
        => /\ served[j].http = 200
           /\ "t1" \in { it.id : it \in Items(served[j].resp.time_entries) }

\* C3: when two clients have each submitted an update of the same existing
\* record with the same base_revision, the state the server reports after the
\* second call carries the fields of the change with the later
\* client_timestamp (on a tie, of the larger client id), in either order of
\* arrival.
C3_LastWriterWins ==
    \A i \in 1..Len(served) : \A j \in 1..Len(served) :
        ( /\ i < j
          /\ IsPost(served[i]) /\ IsPost(served[j])
          /\ served[i].req.client # served[j].req.client )
        => \A u \in Items(served[i].req.payload.time_entries) :
           \A v \in Items(served[j].req.payload.time_entries) :
             ( /\ u.id = v.id
               /\ u.operation = "update" /\ v.operation = "update"
               /\ u.base_revision = v.base_revision
               /\ u.base_revision = AcceptedFor(u.id, i - 1)
               /\ AcceptedFor(u.id, j - 1) = u.base_revision + 1 )
             => /\ served[j].http = 200
                /\ \E it \in Items(served[j].resp.time_entries) : it.id = u.id
                /\ \A it \in Items(served[j].resp.time_entries) :
                     it.id = u.id =>
                       it.fields = Winner(served[i].req.client, u,
                                          served[j].req.client, v).fields

\* C4: a sync call that submits a change whose base_revision is greater than
\* the record's current revision fails with StaleClientError (409) and commits
\* nothing.
C4_StaleClientRejected ==
    \A i \in 1..Len(served) :
        ( /\ IsPost(served[i])
          /\ \E ch \in Items(served[i].req.payload.time_entries) :
                ch.base_revision > AcceptedFor(ch.id, i - 1) )
        => /\ served[i].http = 409
           /\ \A id \in RecordIds : AcceptedFor(id, i) = AcceptedFor(id, i - 1)

\* C5: for every record id, the revision the server holds, as a read of the
\* synced data reports it, is the number of mutations accepted for that id.
C5_RevisionCountsMutations ==
    \A i \in 1..Len(served) : \A id \in RecordIds :
        (IsGetSync(served[i]) /\ AcceptedFor(id, i) > 0)
        => \E it \in Items(served[i].resp.time_entries)
                 \cup Items(served[i].resp.projects)
                 \cup Items(served[i].resp.categories) :
              it.id = id /\ Revision(it) = AcceptedFor(id, i)

\* C6: the watermark a successful sync call returns is the number of mutations
\* accepted so far (the journal's maximum sequence number), not the wall clock.
C6_WatermarkIsSequenceNumber ==
    \A i \in 1..Len(served) :
        (IsSync(served[i]) /\ served[i].http = 200)
        => served[i].resp.last_synced_at = Accepted(i)

\* C7: a client that syncs again with the watermark its previous sync call
\* returned, submitting no changes, with no request of another client in
\* between, receives an empty delta.
C7_ResyncIsEmpty ==
    \A i \in 1..(Len(served) - 1) :
        ( /\ IsSync(served[i])
          /\ served[i].http = 200
          /\ IsPost(served[i + 1])
          /\ served[i + 1].req.client = served[i].req.client
          /\ served[i + 1].req.payload.last_synced_at = served[i].resp.last_synced_at
          /\ Submitted(served[i + 1].req.payload) = {} )
        => /\ served[i + 1].http = 200
           /\ Items(served[i + 1].resp.time_entries) = {}
           /\ Items(served[i + 1].resp.projects) = {}
           /\ Items(served[i + 1].resp.categories) = {}

\* A client has posted changes, then synced again with the returned watermark
\* and no changes, and has been answered.
C7_Witness ==
    \E i \in 1..(Len(served) - 1) :
        /\ IsPost(served[i])
        /\ Submitted(served[i].req.payload) # {}
        /\ served[i].resp.last_synced_at > 0
        /\ IsPost(served[i + 1])
        /\ served[i + 1].req.client = served[i].req.client
        /\ served[i + 1].req.payload.last_synced_at = served[i].resp.last_synced_at
        /\ Submitted(served[i + 1].req.payload) = {}
        /\ served[i + 1].http = 200
        /\ Items(served[i + 1].resp.time_entries) = {}

\* C8: a POST /sync whose last_synced_at is negative is rejected with a
\* ValidationError (400) and gets no success response.
C8_NegativeWatermarkRejected ==
    \A i \in 1..Len(served) :
        (IsPost(served[i]) /\ served[i].req.payload.last_synced_at < 0)
        => served[i].http = 400

\* C9: GET /health answers 200 with status "OK" when the system metrics can be
\* read, and answers 503, without the handler crashing, when one cannot.
C9_HealthAnswers ==
    \A i \in 1..Len(served) :
        served[i].req.route = "GET /health" =>
            IF \A k \in 1..3 : served[i].req.metrics[k].ok
            THEN served[i].http = 200 /\ served[i].resp.status = "OK"
            ELSE served[i].http = 503 /\ ~served[i].panicked

\* C10: the data fields of a sync response depend on the request alone: GET
\* /sync answers null data whatever was posted before, and two equal sync
\* requests get the same data whatever requests came before each.
C10_DataDependsOnRequestOnly ==
    /\ \A i \in 1..Len(served) :
          IsGetSync(served[i]) => Data(served[i].resp) = <<Null, Null, Null>>
    /\ \A i \in 1..Len(served) : \A j \in 1..Len(served) :
          ( /\ IsSync(served[i]) /\ IsSync(served[j])
            /\ served[i].req = served[j].req )
          => Data(served[i].resp) = Data(served[j].resp)

\* Data was posted, and a later GET /sync and a later equal POST were answered.
C10_Witness ==
    \E i \in 1..Len(served) : \E j \in 1..Len(served) : \E k \in 1..Len(served) :
        /\ i < j /\ j < k
        /\ IsPost(served[i])
        /\ Submitted(served[i].req.payload) # {}
        /\ IsGetSync(served[j])
        /\ served[j].resp.time_entries = Null
        /\ IsPost(served[k])
        /\ served[k].req.payload.last_synced_at = -1
        /\ \E h \in 1..Len(served) :
              h < k /\ served[h].req = served[k].req
                    /\ Data(served[h].resp) = Data(served[k].resp)

====
